---- MODULE Spec2Model ----
(***************************************************************************)
(* The capture-job queue of perma_web/perma/models.py: CaptureJob.save     *)
(* (fair ordering of a new job), CaptureJob.get_next_job (cleanup, select, *)
(* conditional update), CaptureJob.mark_completed / mark_failed, and the   *)
(* Link rows the jobs point to (user_deleted, captures).                   *)
(*                                                                         *)
(* The database is the shared state.  Every ORM query is one atomic step;  *)
(* a method that issues several queries is split at the queries, so that   *)
(* concurrent callers interleave exactly where the code lets them.         *)
(*                                                                         *)
(* CaptureJob.order is a float.  It is modelled exactly as an integer      *)
(* count of units of 1/Scale, Scale a power of two above the number of     *)
(* jobs: every stored order is k + m/2^d with d smaller than the number of *)
(* jobs, so no halving is rounded (OrdersExact).                           *)
(***************************************************************************)
EXTENDS Integers, Sequences, FiniteSets, TLC

\* ---------------------------------------------------------------- bounds
MaxJobs == 3
MaxSeqJobs == 4
MaxMarkJobs == 1
NumUsers == 3
NumProcs == 2
MaxCaptures == 1
MaxPlayJobs == 1
MaxPlayLinks == 1
MaxReturns == 2
MaxFolders == 4
NumFolderUsers == 2

MaxQueueJobs == 5
MaxGuidLen == 9
MaxAttempts == 2
MaxUsers == 4
MaxAccessUsers == 2
MaxTime == 2
MaxPurchases == 3
MaxFiledLinks == 2
MaxBonusLinks == 4

\* the users, registrars and organizations of the folder tree
FolderUsers == 1..NumFolderUsers
Registrars == {1}
Organizations == {1}

Users == 1..NumUsers
Procs == 1..NumProcs
Messages == {"m1"}

RECURSIVE Pow2(_)
Pow2(n) == IF n = 0 THEN 1 ELSE 2 * Pow2(n - 1)

\* one unit of order (the float 1.0)
Scale == Pow2(MaxJobs + MaxSeqJobs + MaxMarkJobs)

\* ------------------------------------------------------- program constants
TEST_ALLOW_RACE_on == TRUE
TEST_ALLOW_RACE == FALSE

NON_FIELD_ERRORS_KEY == "error"

\* the statuses callers hand to mark_completed
CompletionStatuses == {"completed", "failed", "deleted"}

\* Capture.role and Capture.status
Roles == {"primary", "screenshot", "favicon"}
CaptureStatuses == {"pending", "failed", "success"}

\* a Capture row of a link
Capture(role, status) == [role |-> role, status |-> status]

\* a null column, or what json.dumps produced
Null == [null |-> TRUE]

json_dumps(message) == [key |-> NON_FIELD_ERRORS_KEY, errors |-> <<message>>]

\* ------------------------------------------------------------------ state
VARIABLES
    jobs,       \* CaptureJob table: sequence of rows, primary key = index
    links,      \* Link table: sequence of rows, key = index
    pc,         \* where each concurrent caller is
    reserve,    \* the reserve argument of the caller's get_next_job call
    next_job,   \* the caller's local next_job, then what the call returned (0 is None)
    new_job,    \* the unsaved CaptureJob instance of a caller inside save
    updates,    \* per job: conditional updates that affected its row
    returns,    \* per job: get_next_job(reserve=True) calls that returned it
    job_instance, \* the CaptureJob instance mark_capturejob_superseded holds in memory
    played,     \* the last can_play_back call: its link, what it returned and logged
    folders,    \* Folder table: sequence of rows, primary key = index
    sponsorships, \* Sponsorship table: status of each (user, registrar) row
    guid,       \* the argument of a get_canonical_guid call, a sequence of characters
    canonical_guid, \* what the call returned
    link_by_guid, \* Link table as Link.save sees it: the row stored under each guid
    creating,   \* each concurrent Link.save: where it is, its guid, its attempts
    users,      \* LinkUser table: sequence of rows, primary key = index
    customer,   \* one customer's nonpaying flag and cached subscription fields
    now,        \* timezone.now()
    subscription, \* the last subscription_status evaluation: the service's answer and the result
    bonus_links, \* LinkUser.bonus_links of each user
    position,   \* the last queue_position call: its job and what it returned
    remaining,  \* the last links_remaining_in_period call and what it returned
    deletable,  \* the last can_delete call: user, link and what it returned
    credited,   \* the last credit_for_purchased_links call and what it returned
    access      \* the last folder access check: user, folder and both answers

\* the variables of the capture queue's callers
queue_vars == <<pc, reserve, next_job, new_job, updates, returns>>

\* the variables of the link playback code
play_vars == <<job_instance, played>>

\* the variables of the capture queue and of link playback
capture_vars == <<jobs, links, queue_vars, play_vars>>

\* the variables of the folder tree
folder_vars == <<folders, sponsorships>>

\* the variables of GUID canonicalization and generation
guid_vars == <<guid, canonical_guid, link_by_guid, creating>>

\* the variables of user creation
user_vars == <<users>>

\* the variables of the subscription status
customer_vars == <<customer, now, subscription>>

\* what the calls that only answer returned, one variable each
call_vars == <<position, remaining, deletable, credited, access>>

\* what the capture code leaves alone
outside_capture == <<folder_vars, guid_vars, user_vars, customer_vars, bonus_links, call_vars>>

\* what the folder code leaves alone
outside_folders == <<capture_vars, guid_vars, user_vars, customer_vars, bonus_links, call_vars>>

\* what the GUID code leaves alone
outside_guids == <<capture_vars, folder_vars, user_vars, customer_vars, bonus_links, call_vars>>

\* what user creation leaves alone (it creates the user's root folder)
outside_users == <<capture_vars, sponsorships, guid_vars, customer_vars, bonus_links, call_vars>>

\* what the subscription code leaves alone
outside_customers == <<capture_vars, folder_vars, guid_vars, user_vars, bonus_links, call_vars>>

vars == <<capture_vars, folder_vars, guid_vars, user_vars, customer_vars, bonus_links, call_vars>>

NoJob == [link |-> 0, status |-> "invalid", message |-> Null, human |-> FALSE,
          order |-> 0, created_by |-> 0, superseded |-> FALSE]

\* no instance in memory
NoInstance == [pk |-> 0, row |-> NoJob]

\* no call yet
NoCall == [link |-> 0, returned |-> FALSE, logged |-> FALSE]

\* Python's None where the other values are strings
None == "None"

\* subscription_status not read yet
NoStatus == [called |-> FALSE, outcome |-> "", raised |-> FALSE, returned |-> None]

\* queue_position not called yet
NoPosition == [job |-> 0, returned |-> 0]

\* links_remaining_in_period not called yet
NoRemaining == [called |-> FALSE, limit |-> 0, infinite |-> FALSE, returned |-> 0]

\* can_delete not called yet
NoDeletable == [called |-> FALSE, user |-> 0, link |-> 0, returned |-> FALSE]

\* credit_for_purchased_links not called yet
NoCredit == [called |-> FALSE, purchases |-> <<>>, before |-> 0, returned |-> 0]

\* no folder access checked yet
NoAccess == [user |-> 0, folder |-> 0, instance |-> FALSE, queryset |-> FALSE]

\* get_canonical_guid not called yet
NotCalled == [called |-> FALSE, returned |-> <<>>]

JobIds == 1..Len(jobs)
LinkIds == 1..Len(links)

\* ---------------------------------------------------------------- queries
\* CaptureJob.objects.filter(status='pending') on table t
Pending(t) == {j \in 1..Len(t) : t[j].status = "pending"}

\* CaptureJob.objects.filter(status='pending', human=h)
PendingLane(h) == {j \in Pending(jobs) : jobs[j].human = h}

\* .order_by('-order'): rows of equal order come in whatever order the
\* database produces them
RECURSIVE order_by_desc(_)
order_by_desc(S) ==
    IF S = {} THEN {<<>>}
    ELSE UNION {{<<j>> \o t : t \in order_by_desc(S \ {j})} :
                j \in {x \in S : \A y \in S : jobs[y].order <= jobs[x].order}}

\* itertools.takewhile(lambda x: x.created_by_id != self.created_by_id, ...)
RECURSIVE takewhile(_, _)
takewhile(list, created_by) ==
    IF list = <<>> \/ jobs[Head(list)].created_by = created_by THEN <<>>
    ELSE <<Head(list)>> \o takewhile(Tail(list), created_by)

RECURSIVE reversed(_)
reversed(list) ==
    IF list = <<>> THEN <<>> ELSE Append(reversed(Tail(list)), Head(list))

\* the loop with the midpoint taken from the repeated creator's first job
RECURSIVE scan_from_first(_, _, _, _)
scan_from_first(pending_jobs, i, next_jobs, last_job) ==
    IF i > Len(pending_jobs) THEN 0
    ELSE LET pending_job == pending_jobs[i]
             pending_job_created_by_id == links[jobs[pending_job].link].created_by
             first_job == next_jobs[pending_job_created_by_id]
         IN  IF pending_job_created_by_id \in DOMAIN next_jobs
             THEN jobs[first_job].order
                    + (jobs[pending_job].order - jobs[first_job].order) \div 2
             ELSE scan_from_first(pending_jobs, i + 1,
                       (pending_job_created_by_id :> pending_job) @@ next_jobs,
                       pending_job)

\* the loop that forgets to record the creators it has seen
RECURSIVE scan_no_record(_, _, _, _)
scan_no_record(pending_jobs, i, next_jobs, last_job) ==
    IF i > Len(pending_jobs) THEN 0
    ELSE LET pending_job == pending_jobs[i]
             pending_job_created_by_id == links[jobs[pending_job].link].created_by
         IN  IF pending_job_created_by_id \in DOMAIN next_jobs
             THEN jobs[last_job].order
                    + (jobs[pending_job].order - jobs[last_job].order) \div 2
             ELSE scan_no_record(pending_jobs, i + 1, next_jobs, pending_job)

\* the for loop of save: the order between the first repeated creator's job
\* and last_job, or 0 when the loop ends without a break
RECURSIVE scan(_, _, _, _)
scan(pending_jobs, i, next_jobs, last_job) ==
    IF i > Len(pending_jobs) THEN 0
    ELSE LET pending_job == pending_jobs[i]
             pending_job_created_by_id == links[jobs[pending_job].link].created_by
         IN  IF pending_job_created_by_id \in DOMAIN next_jobs
             THEN jobs[last_job].order
                    + (jobs[pending_job].order - jobs[last_job].order) \div 2
             ELSE scan(pending_jobs, i + 1,
                       (pending_job_created_by_id :> pending_job) @@ next_jobs,
                       pending_job)

\* the maximum taken over the pending rows only
max_order_pending(h) ==
    LET S == {jobs[j].order : j \in PendingLane(h)}
    IN  IF S = {} THEN 0 ELSE CHOOSE m \in S : \A x \in S : x <= m

\* aggregate(Max('order'))['order__max'] or 0, over every row of the lane
max_order(h) ==
    LET S == {jobs[j].order : j \in {k \in JobIds : jobs[k].human = h}}
    IN  IF S = {} THEN 0 ELSE CHOOSE m \in S : \A x \in S : x <= m

\* the order save gives a new job of created_by in lane h, when the
\* database answered the pending query with desc
new_order(desc, created_by, h) ==
    LET pending_jobs == reversed(takewhile(desc, created_by))
        mid == scan(pending_jobs, 1, <<>>, 0)
    IN  IF mid # 0 THEN mid
        ELSE IF pending_jobs # <<>>
             THEN jobs[pending_jobs[Len(pending_jobs)]].order + Scale
             ELSE max_order(h) + Scale

\* order_by('order', 'pk'): the lanes merged
sorts_before_no_lane(t, a, b) ==
    \/ t[a].order < t[b].order
    \/ t[a].order = t[b].order /\ a < b

\* order_by('-human', 'order', '-pk'): ties to the newest row
sorts_before_pk_desc(t, a, b) ==
    \/ t[a].human /\ ~t[b].human
    \/ t[a].human = t[b].human /\ t[a].order < t[b].order
    \/ t[a].human = t[b].human /\ t[a].order = t[b].order /\ a > b

\* order_by('-human', 'order', 'pk'): does row a of t sort before row b
sorts_before(t, a, b) ==
    \/ t[a].human /\ ~t[b].human
    \/ t[a].human = t[b].human /\ t[a].order < t[b].order
    \/ t[a].human = t[b].human /\ t[a].order = t[b].order /\ a < b

\* the first row of the whole table, pending or not
first_pending_any_status(t) ==
    IF t = <<>> THEN 0
    ELSE CHOOSE j \in 1..Len(t) : \A k \in 1..Len(t) \ {j} : sorts_before(t, j, k)

\* cls.objects.filter(status='pending').order_by(...).first(), 0 for None
first_pending(t) ==
    IF Pending(t) = {} THEN 0
    ELSE CHOOSE j \in Pending(t) : \A k \in Pending(t) \ {j} : sorts_before(t, j, k)

\* get_next_job without its cleanup
cleanup_skipped(t) == t

\* the cleanup update applied to the rows from primary key j on
RECURSIVE cleanup_from(_, _)
cleanup_from(t, j) ==
    IF j > Len(t) THEN t
    ELSE cleanup_from(
            IF t[j].status = "pending" /\ t[j].link # 0 /\ links[t[j].link].user_deleted
            THEN [t EXCEPT ![j].status = "deleted"]
            ELSE t,
            j + 1)

\* filter(link__user_deleted=True, status='pending').update(status='deleted')
cleanup(t) == cleanup_from(t, 1)

\* filter(status='pending', pk=pk).update(status='in_progress'): rows affected
update_count(t, pk) == IF t[pk].status = "pending" THEN 1 ELSE 0

conditional_update(t, pk) ==
    IF t[pk].status = "pending" THEN [t EXCEPT ![pk].status = "in_progress"] ELSE t

\* ------------------------------------------------- Link.get_canonical_guid
\* the characters of the strings handed to get_canonical_guid: a lowercase
\* letter, the uppercase letter O, a digit and the hyphen
Chars == {"a", "O", "2", "-"}

\* the strings of at most MaxGuidLen characters
GuidInputs == UNION {[1..n -> Chars] : n \in 0..MaxGuidLen}

\* guid.upper()
RECURSIVE upper(_)
upper(s) ==
    IF s = <<>> THEN <<>>
    ELSE <<IF Head(s) = "a" THEN "A" ELSE Head(s)>> \o upper(Tail(s))

\* re.sub('[^0-9A-Z]+', '', s)
RECURSIVE re_sub(_)
re_sub(s) ==
    IF s = <<>> THEN <<>>
    ELSE (IF Head(s) \in {"A", "O", "2", "0"} THEN <<Head(s)>> ELSE <<>>) \o re_sub(Tail(s))

\* the chunks taken from the start of the string
RECURSIVE guid_parts_from_start(_, _)
guid_parts_from_start(s, i) ==
    IF i <= 0 THEN <<>>
    ELSE Append(guid_parts_from_start(s, i - 4),
                SubSeq(s, Len(s) - i + 1, IF Len(s) - i + 4 < Len(s) THEN Len(s) - i + 4 ELSE Len(s)))

\* [s[max(i - 4, 0):i] for i in range(i, 0, -4)]
RECURSIVE guid_parts(_, _)
guid_parts(s, i) ==
    IF i <= 0 THEN <<>>
    ELSE <<SubSeq(s, (IF i - 4 > 0 THEN i - 4 ELSE 0) + 1, i)>> \o guid_parts(s, i - 4)

\* the parts put together with nothing in between
RECURSIVE join_concat(_)
join_concat(parts) ==
    IF parts = <<>> THEN <<>> ELSE parts[1] \o join_concat(Tail(parts))

\* "-".join(parts)
RECURSIVE join(_)
join(parts) ==
    IF parts = <<>> THEN <<>>
    ELSE IF Len(parts) = 1 THEN parts[1]
    ELSE parts[1] \o <<"-">> \o join(Tail(parts))

\* Link.get_canonical_guid
get_canonical_guid(s) ==
    IF (\A i \in 1..Len(s) : s[i] # "-") /\ Len(s) >= 9
    THEN IF s[1] = "O" THEN [s EXCEPT ![1] = "0"] ELSE s
    ELSE LET canonical == re_sub(upper(s))
         IN  join(reversed(guid_parts(canonical, Len(canonical))))

\* a call of get_canonical_guid on the string guid
canonicalize ==
    /\ ~canonical_guid.called
    /\ canonical_guid' = [called |-> TRUE, returned |-> get_canonical_guid(guid)]
    /\ UNCHANGED <<guid, link_by_guid, creating, outside_guids>>

\* ----------------------------------------------- Link.save, the new GUID
\* the 8-character strings r.choice can produce, of GUID_CHARACTER_SET
GuidCandidates ==
    {<<"2", "2", "2", "2", "2", "2", "2", "2">>,
     <<"2", "A", "2", "A", "2", "A", "2", "A">>,
     <<"A", "A", "A", "A", "2", "2", "2", "2">>}

\* the primary keys Link.save can compute
Guids == {get_canonical_guid(c) : c \in GuidCandidates}

\* no row under a guid
Absent == [exists |-> FALSE, user_deleted |-> FALSE, created_by |-> 0]

\* a caller that is not inside Link.save
NotCreating == [pc |-> "idle", guid |-> <<>>, i |-> 0]

\* re.search(r'^[A-Z]{4}', guid)
match(g) == Len(g) >= 4 /\ \A i \in 1..4 : g[i] \in {"A", "O"}

\* Link.objects.filter(guid=guid).exists(): Link.objects is a
\* DeletableManager, which leaves the user-deleted rows out
exists(g) == link_by_guid[g].exists /\ ~link_by_guid[g].user_deleted

\* one pass of the for loop of caller p, r.choice having produced candidate:
\* break with the guid, go round again, or raise after the last attempt
guid_attempt(p, candidate) ==
    LET g == get_canonical_guid(candidate)
    IN  /\ creating[p].pc \in {"idle", "loop"}
        /\ creating' = [creating EXCEPT ![p] =
                IF ~match(g) /\ ~exists(g)
                THEN [pc |-> "update", guid |-> g, i |-> 0]
                ELSE IF creating[p].i + 1 < MaxAttempts
                THEN [pc |-> "loop", guid |-> <<>>, i |-> creating[p].i + 1]
                ELSE NotCreating]
        /\ UNCHANGED <<guid, canonical_guid, link_by_guid, outside_guids>>

\* super().save(), first query: the primary key is set, so the row with
\* this guid is updated; when there is none an insert follows
link_save_update(p) ==
    /\ creating[p].pc = "update"
    /\ IF link_by_guid[creating[p].guid].exists
       THEN /\ link_by_guid' = [link_by_guid EXCEPT ![creating[p].guid] =
                                   [exists |-> TRUE, user_deleted |-> FALSE, created_by |-> p]]
            /\ creating' = [creating EXCEPT ![p] = NotCreating]
       ELSE /\ creating' = [creating EXCEPT ![p].pc = "insert"]
            /\ UNCHANGED link_by_guid
    /\ UNCHANGED <<guid, canonical_guid, outside_guids>>

\* super().save(), second query: the insert, refused by the primary key
\* when a row with this guid has appeared
link_save_insert(p) ==
    /\ creating[p].pc = "insert"
    /\ link_by_guid' = IF link_by_guid[creating[p].guid].exists THEN link_by_guid
                       ELSE [link_by_guid EXCEPT ![creating[p].guid] =
                               [exists |-> TRUE, user_deleted |-> FALSE, created_by |-> p]]
    /\ creating' = [creating EXCEPT ![p] = NotCreating]
    /\ UNCHANGED <<guid, canonical_guid, outside_guids>>

\* DeletableModel.safe_delete of the link stored under g, saved by the caller
link_safe_delete(g) ==
    /\ link_by_guid[g].exists /\ ~link_by_guid[g].user_deleted
    /\ link_by_guid' = [link_by_guid EXCEPT ![g].user_deleted = TRUE]
    /\ UNCHANGED <<guid, canonical_guid, creating, outside_guids>>

\* ------------------------------------------------------------------- Init
\* the tables empty, every caller idle, nothing called yet
InitCapture ==
    /\ jobs = <<>>
    /\ links = <<>>
    /\ pc = [p \in Procs |-> "idle"]
    /\ reserve = [p \in Procs |-> FALSE]
    /\ next_job = [p \in Procs |-> 0]
    /\ new_job = [p \in Procs |-> NoJob]
    /\ updates = <<>>
    /\ returns = <<>>
    /\ job_instance = NoInstance
    /\ played = NoCall

InitFolders ==
    /\ folders = <<>>
    /\ sponsorships = [u \in FolderUsers, r \in Registrars |-> "none"]

InitLinkGuids ==
    /\ canonical_guid = NotCalled
    /\ link_by_guid = [g \in Guids |-> Absent]
    /\ creating = [p \in Procs |-> NotCreating]

InitUsers ==
    /\ users = <<>>
    /\ bonus_links = [u \in 1..MaxUsers |-> 0]

InitCustomer ==
    /\ customer = [nonpaying |-> FALSE, cached_subscription_status |-> None,
                   cached_paid_through |-> <<>>, bonus_links |-> 0]
    /\ now = 0
    /\ subscription = NoStatus

InitCalls ==
    /\ position = NoPosition
    /\ remaining = NoRemaining
    /\ deletable = NoDeletable
    /\ credited = NoCredit
    /\ access = NoAccess

Init ==
    /\ InitCapture /\ InitFolders /\ InitLinkGuids /\ InitUsers /\ InitCustomer
    /\ InitCalls
    /\ guid = <<>>

InFlight == Cardinality({p \in Procs : pc[p] = "save"})

\* the rows a handler builds before it saves the job: a Link and a pending
\* CaptureJob for it, or a CaptureJob with no link and the default status
instance(created_by, h, with_link, order) ==
    [link |-> IF with_link THEN 1 ELSE 0,
     status |-> IF with_link THEN "pending" ELSE "invalid",
     message |-> Null, human |-> h, order |-> order, created_by |-> created_by,
     superseded |-> FALSE]

\* settings.ARCHIVE_DELAY, in the unit of now
ARCHIVE_DELAY == 1

\* created_by.root_folder, 0 for None
root_folder(created_by) ==
    IF \E f \in 1..Len(folders) :
          folders[f].is_root_folder /\ folders[f].created_by = created_by
    THEN CHOOSE f \in 1..Len(folders) :
          folders[f].is_root_folder /\ folders[f].created_by = created_by
    ELSE 0

\* a new Link row as Link.save stores it: no captures, nothing cached, no
\* archive file stored, no organization, not a bonus link, created now, in
\* the root folder of its creator when there is one
link_row(created_by) ==
    [user_deleted |-> FALSE, captures |-> <<>>, created_by |-> created_by,
     cached_can_play_back |-> Null, has_warc |-> FALSE,
     folders |-> IF root_folder(created_by) = 0 THEN {} ELSE {root_folder(created_by)},
     organization |-> 0, bonus_link |-> FALSE,
     creation_timestamp |-> now, archive_timestamp |-> now + ARCHIVE_DELAY]

\* super().save(): the job row, and the row of its link, enter the tables
insert(job) ==
    /\ jobs' = Append(jobs, IF job.link # 0
                            THEN [job EXCEPT !.link = Len(links) + 1] ELSE job)
    /\ links' = IF job.link # 0 THEN Append(links, link_row(job.created_by)) ELSE links
    /\ updates' = Append(updates, 0)
    /\ returns' = Append(returns, 0)

\* ------------------------------------------------------- CaptureJob.save
\* first half: the queries that compute self.order
save_compute(p, created_by, h, with_link) ==
    /\ pc[p] = "idle"
    /\ Len(jobs) + InFlight < MaxJobs
    /\ \E desc \in order_by_desc(PendingLane(h)) :
         new_job' = [new_job EXCEPT ![p] =
                        instance(created_by, h, with_link, new_order(desc, created_by, h))]
    /\ pc' = [pc EXCEPT ![p] = "save"]
    /\ next_job' = [next_job EXCEPT ![p] = 0]
    /\ UNCHANGED <<jobs, links, reserve, updates, returns>>
    /\ UNCHANGED play_vars
    /\ UNCHANGED outside_capture

\* second half: super().save() inserts the row
save_write(p) ==
    /\ pc[p] = "save"
    /\ insert(new_job[p])
    /\ new_job' = [new_job EXCEPT ![p] = NoJob]
    /\ pc' = [pc EXCEPT ![p] = "idle"]
    /\ UNCHANGED <<reserve, next_job>>
    /\ UNCHANGED play_vars
    /\ UNCHANGED outside_capture

\* the whole of save with no other query in between
save(created_by, h, with_link, max_jobs) ==
    /\ Len(jobs) < max_jobs
    /\ \E desc \in order_by_desc(PendingLane(h)) :
         insert(instance(created_by, h, with_link, new_order(desc, created_by, h)))
    /\ UNCHANGED <<pc, reserve, next_job, new_job>>
    /\ UNCHANGED play_vars
    /\ UNCHANGED outside_capture

\* ------------------------------------------------ CaptureJob.get_next_job
\* the cleanup update
get_next_job_cleanup(p, r) ==
    /\ pc[p] = "idle"
    /\ jobs' = cleanup(jobs)
    /\ reserve' = [reserve EXCEPT ![p] = r]
    /\ next_job' = [next_job EXCEPT ![p] = 0]
    /\ pc' = [pc EXCEPT ![p] = "select"]
    /\ UNCHANGED <<links, new_job, updates, returns>>
    /\ UNCHANGED play_vars
    /\ UNCHANGED outside_capture

\* next_job = ....first(); without reserve, or with None, return next_job
get_next_job_select(p) ==
    /\ pc[p] = "select"
    /\ next_job' = [next_job EXCEPT ![p] = first_pending(jobs)]
    /\ IF reserve[p] /\ first_pending(jobs) # 0
       THEN /\ pc' = [pc EXCEPT ![p] = "update"]
            /\ UNCHANGED reserve
       ELSE /\ pc' = [pc EXCEPT ![p] = "idle"]
            /\ reserve' = [reserve EXCEPT ![p] = FALSE]
    /\ UNCHANGED <<jobs, links, new_job, updates, returns>>
    /\ UNCHANGED play_vars
    /\ UNCHANGED outside_capture

\* the conditional update: zero rows means try again, otherwise
\* refresh_from_db and return next_job
get_next_job_update(p) ==
    /\ pc[p] = "update"
    /\ jobs' = conditional_update(jobs, next_job[p])
    /\ updates' = [updates EXCEPT ![next_job[p]] = @ + update_count(jobs, next_job[p])]
    /\ IF update_count(jobs, next_job[p]) = 0 /\ ~TEST_ALLOW_RACE
       THEN /\ pc' = [pc EXCEPT ![p] = "select"]
            /\ UNCHANGED <<returns, reserve>>
       ELSE /\ pc' = [pc EXCEPT ![p] = "idle"]
            /\ returns' = [returns EXCEPT ![next_job[p]] = @ + 1]
            /\ reserve' = [reserve EXCEPT ![p] = FALSE]
    /\ UNCHANGED <<links, next_job, new_job>>
    /\ UNCHANGED play_vars
    /\ UNCHANGED outside_capture

\* the whole of get_next_job with no other query in between
get_next_job(r) ==
    LET t == cleanup(jobs)
        j == first_pending(t)
    IN  /\ jobs' = IF r /\ j # 0 THEN conditional_update(t, j) ELSE t
        /\ updates' = IF r /\ j # 0 THEN [updates EXCEPT ![j] = @ + update_count(t, j)]
                      ELSE updates
        /\ returns' = IF r /\ j # 0 THEN [returns EXCEPT ![j] = @ + 1] ELSE returns
        /\ UNCHANGED <<links, pc, reserve, next_job, new_job>>
        /\ UNCHANGED play_vars
        /\ UNCHANGED outside_capture

\* ---------------------------------------------- CaptureJob.queue_position
\* job.queue_position(): what it returns for row j of table t
queue_position_of(t, j) ==
    IF t[j].status # "pending" THEN 0
    ELSE Cardinality({k \in Pending(t) : t[k].human = t[j].human /\ t[k].order <= t[j].order})
           + (IF ~t[j].human THEN Cardinality({k \in Pending(t) : t[k].human}) ELSE 0)

\* a call of queue_position on the job with primary key j
queue_position(j) ==
    /\ j \in JobIds
    /\ position' = [job |-> j, returned |-> queue_position_of(jobs, j)]
    /\ UNCHANGED <<capture_vars, folder_vars, guid_vars, user_vars, customer_vars, bonus_links>>
    /\ UNCHANGED <<remaining, deletable, credited, access>>

\* mark_completed without the check on the captures
completed_status_unchecked(j, status) == status

\* mark_completed putting a job without captures back in the queue
completed_status_requeue(j, status) ==
    IF status = "completed" /\ jobs[j].link # 0 /\ Len(links[jobs[j].link].captures) = 0
    THEN "pending" ELSE status

\* the status mark_completed stores
completed_status(j, status) ==
    IF status = "completed" /\ jobs[j].link # 0 /\ Len(links[jobs[j].link].captures) = 0
    THEN "failed" ELSE status

mark_completed(j, status) ==
    /\ j \in JobIds
    /\ jobs' = [jobs EXCEPT ![j].status = completed_status(j, status)]
    /\ UNCHANGED <<links, pc, reserve, next_job, new_job, updates, returns>>
    /\ UNCHANGED play_vars
    /\ UNCHANGED outside_capture

mark_failed(j, message) ==
    /\ j \in JobIds
    /\ jobs' = [jobs EXCEPT ![j].message = json_dumps(message),
                            ![j].status = completed_status(j, "failed")]
    /\ UNCHANGED <<links, pc, reserve, next_job, new_job, updates, returns>>
    /\ UNCHANGED play_vars
    /\ UNCHANGED outside_capture

\* ------------------------------------------------------------------ links
\* DeletableModel.safe_delete, saved by the caller
safe_delete(l) ==
    /\ l \in LinkIds
    /\ ~links[l].user_deleted
    /\ links' = [links EXCEPT ![l].user_deleted = TRUE]
    /\ UNCHANGED <<jobs, pc, reserve, next_job, new_job, updates, returns>>
    /\ UNCHANGED play_vars
    /\ UNCHANGED outside_capture

\* a Capture row is saved for the link
capture_save(l, role, status) ==
    /\ l \in LinkIds
    /\ Len(links[l].captures) < MaxCaptures
    /\ links' = [links EXCEPT ![l].captures = Append(@, Capture(role, status))]
    /\ UNCHANGED <<jobs, pc, reserve, next_job, new_job, updates, returns>>
    /\ UNCHANGED play_vars
    /\ UNCHANGED outside_capture

\* ------------------------------------------------------- link playback
\* Link.save of a link that gets no CaptureJob (an early link, a direct upload)
link_save(created_by) ==
    /\ Len(links) < MaxPlayLinks
    /\ links' = Append(links, link_row(created_by))
    /\ UNCHANGED <<jobs, queue_vars, play_vars>>
    /\ UNCHANGED outside_capture

\* link.capture_job: the primary key of the link's CaptureJob, 0 for DoesNotExist
capture_job(l) ==
    IF \E j \in JobIds : jobs[j].link = l
    THEN CHOOSE j \in JobIds : jobs[j].link = l
    ELSE 0

\* write_uploaded_file: the warc is stored, then the Capture row is saved
write_uploaded_file(l) ==
    /\ l \in LinkIds
    /\ Len(links[l].captures) < MaxCaptures
    /\ links' = [links EXCEPT ![l].has_warc = TRUE,
                              ![l].captures = Append(@, Capture("primary", "success"))]
    /\ UNCHANGED <<jobs, queue_vars, play_vars>>
    /\ UNCHANGED outside_capture

\* mark_capturejob_superseded, first query: job = self.capture_job
mark_capturejob_superseded_load(l) ==
    /\ l \in LinkIds
    /\ job_instance = NoInstance
    /\ capture_job(l) # 0
    /\ job_instance' = [pk |-> capture_job(l), row |-> jobs[capture_job(l)]]
    /\ UNCHANGED <<jobs, links, queue_vars, played>>
    /\ UNCHANGED outside_capture

\* job.superseded = True; job.save(): every field of the instance is written
mark_capturejob_superseded_save ==
    /\ job_instance # NoInstance
    /\ jobs' = [jobs EXCEPT ![job_instance.pk] = [job_instance.row EXCEPT !.superseded = TRUE]]
    /\ job_instance' = NoInstance
    /\ UNCHANGED <<links, queue_vars, played>>
    /\ UNCHANGED outside_capture

\* the filter with a successful favicon counted as well
CAN_PLAY_BACK_FILTER_any_role(capture) == capture.status = "success"

\* Capture.CAN_PLAY_BACK_FILTER
CAN_PLAY_BACK_FILTER(capture) ==
    \/ capture.role = "primary" /\ capture.status = "success"
    \/ capture.role = "screenshot" /\ capture.status = "success"

\* self.captures.filter(Capture.CAN_PLAY_BACK_FILTER).exists()
has_successful_capture(l) ==
    \E i \in 1..Len(links[l].captures) : CAN_PLAY_BACK_FILTER(links[l].captures[i])

\* successful_metadata of can_play_back, after the look at the CaptureJob
successful_metadata(l) ==
    LET j == capture_job(l)
    IN  IF j # 0 /\ ~jobs[j].superseded /\ jobs[j].status # "completed"
        THEN FALSE
        ELSE has_successful_capture(l)

\* settings.CHECK_WARC_BEFORE_PLAYBACK
CHECK_WARC_BEFORE_PLAYBACK == TRUE

\* what can_play_back returns for link l
can_play_back_returns(l) ==
    IF links[l].cached_can_play_back # Null THEN links[l].cached_can_play_back.value
    ELSE IF links[l].user_deleted THEN FALSE
    ELSE successful_metadata(l)

\* does can_play_back reach logger.error for link l
can_play_back_logs(l) ==
    /\ links[l].cached_can_play_back = Null
    /\ ~links[l].user_deleted
    /\ CHECK_WARC_BEFORE_PLAYBACK
    /\ successful_metadata(l) # links[l].has_warc

\* can_play_back writing its result to the cache
can_play_back_memoized(l) ==
    /\ l \in LinkIds
    /\ played' = [link |-> l, returned |-> can_play_back_returns(l),
                  logged |-> can_play_back_logs(l)]
    /\ links' = [links EXCEPT ![l].cached_can_play_back =
                                  [value |-> can_play_back_returns(l)]]
    /\ UNCHANGED <<jobs, queue_vars, job_instance>>
    /\ UNCHANGED outside_capture

\* Link.can_play_back
can_play_back(l) ==
    /\ l \in LinkIds
    /\ played' = [link |-> l, returned |-> can_play_back_returns(l),
                  logged |-> can_play_back_logs(l)]
    /\ UNCHANGED <<jobs, links, queue_vars, job_instance>>
    /\ UNCHANGED outside_capture

\* the caching of the playback status: the cached boolean is set to the
\* result of the computation
cache_playback_status(l) ==
    /\ l \in LinkIds
    /\ links' = [links EXCEPT ![l].cached_can_play_back =
                                  [value |-> successful_metadata(l)]]
    /\ UNCHANGED <<jobs, queue_vars, play_vars>>
    /\ UNCHANGED outside_capture

\* ---------------------------------------------------------------- folders
FolderIds == 1..Len(folders)

\* a Folder instance as its creator builds it: the fields not given keep
\* their defaults (0 is null)
Folder(parent, created_by, organization, sponsored_by, flag) ==
    [parent |-> parent, created_by |-> created_by, owned_by |-> 0,
     organization |-> organization, sponsored_by |-> sponsored_by,
     read_only |-> FALSE,
     is_shared_folder |-> flag = "is_shared_folder",
     is_root_folder |-> flag = "is_root_folder",
     is_sponsored_root_folder |-> flag = "is_sponsored_root_folder"]

\* Folder.save, "set defaults": what a new instance takes from its parent
\* and its creator, in table t
set_defaults(t, self) ==
    LET from_parent ==
            IF self.parent = 0 THEN self
            ELSE LET parent == t[self.parent]
                     r == [self EXCEPT !.read_only = parent.read_only]
                 IN  IF parent.organization # 0
                     THEN [r EXCEPT !.organization = parent.organization]
                     ELSE IF parent.sponsored_by # 0
                     THEN [r EXCEPT !.sponsored_by = parent.sponsored_by]
                     ELSE [r EXCEPT !.owned_by = parent.owned_by]
    IN  IF from_parent.created_by # 0 /\ from_parent.owned_by = 0
           /\ from_parent.organization = 0
        THEN [from_parent EXCEPT !.owned_by = from_parent.created_by]
        ELSE from_parent

\* is folder d inside the subtree of folder f (f itself included) in table t
RECURSIVE in_subtree(_, _, _)
in_subtree(t, d, f) ==
    d = f \/ (t[d].parent # 0 /\ in_subtree(t, t[d].parent, f))

\* the folder alone, its subfolders forgotten
get_descendants_self_only(t, f) == {f}

\* self.get_descendants(include_self=True)
get_descendants(t, f) == {d \in 1..Len(t) : in_subtree(t, d, f)}

\* the three updates of the re-parenting, applied to the rows d, d+1, ...
\* of the set D: read_only, and organization / sponsor / owner as the
\* parent row has them
RECURSIVE update_from(_, _, _, _)
update_from(t, D, parent, d) ==
    IF d > Len(t) THEN t
    ELSE update_from(
            IF d \notin D THEN t
            ELSE IF parent.organization # 0
            THEN [t EXCEPT ![d].read_only = parent.read_only,
                           ![d].owned_by = 0,
                           ![d].organization = parent.organization,
                           ![d].sponsored_by = 0]
            ELSE IF parent.sponsored_by # 0
            THEN [t EXCEPT ![d].read_only = parent.read_only,
                           ![d].owned_by = parent.owned_by,
                           ![d].organization = 0,
                           ![d].sponsored_by = parent.sponsored_by]
            ELSE [t EXCEPT ![d].read_only = parent.read_only,
                           ![d].owned_by = parent.owned_by,
                           ![d].organization = 0,
                           ![d].sponsored_by = 0],
            D, parent, d + 1)

\* Folder.save of a new instance
folder_create(parent, created_by) ==
    /\ Len(folders) < MaxFolders
    /\ parent \in FolderIds
    /\ folders' = Append(folders, set_defaults(folders, Folder(parent, created_by, 0, 0, "")))
    /\ UNCHANGED <<sponsorships, outside_folders>>

\* self.tracker.has_changed('parent_id')
parent_has_changed(f, parent) == parent # folders[f].parent

\* is_shared_folder, is_root_folder, is_sponsored_root_folder: the folder is
\* the apex of a tree, which has no parent and is given none
is_apex(f) ==
    \/ folders[f].is_shared_folder
    \/ folders[f].is_root_folder
    \/ folders[f].is_sponsored_root_folder

\* Folder.save of an existing folder f whose parent the caller set to parent
\* (0 is None: super().save() stores it and self.parent.read_only raises);
\* the tree refuses a parent inside the folder's own subtree
\* and then the links of the subtree take the parent's organization, and
\* when the parent belongs to an organization or a sponsor their bonus_link
\* is cleared and the creator of bonus_links[0], any of them as the query
\* has no order, is credited with the count of the update
folder_move(f, parent) ==
    /\ f \in FolderIds
    /\ ~is_apex(f)
    /\ parent \in FolderIds \cup {0}
    /\ IF parent = 0 THEN TRUE ELSE ~in_subtree(folders, parent, f)
    /\ LET saved == [folders EXCEPT ![f].parent = parent]
           descendants == get_descendants(saved, f)
           moved == parent_has_changed(f, parent) /\ parent # 0
           in_tree == {l \in 1..Len(links) : ~links[l].user_deleted
                                             /\ links[l].folders \cap descendants # {}}
           bonus == {l \in in_tree : links[l].bonus_link}
           credit == /\ moved /\ bonus # {}
                     /\ (saved[parent].organization # 0 \/ saved[parent].sponsored_by # 0)
       IN  /\ folders' = IF ~moved THEN saved
                         ELSE update_from(saved, descendants, saved[parent], 1)
           /\ links' = [l \in 1..Len(links) |->
                           IF ~moved \/ l \notin in_tree THEN links[l]
                           ELSE [links[l] EXCEPT
                                   !.organization = saved[parent].organization,
                                   !.bonus_link = IF credit THEN FALSE ELSE @]]
           /\ IF credit
              THEN \E first \in bonus :
                     bonus_links' = IF links[first].created_by = 0 THEN bonus_links
                                    ELSE [bonus_links EXCEPT ![links[first].created_by] =
                                                                @ + Cardinality(bonus)]
              ELSE bonus_links' = bonus_links
    /\ UNCHANGED <<sponsorships, jobs, queue_vars, play_vars>>
    /\ UNCHANGED <<guid_vars, user_vars, customer_vars, call_vars>>

\* LinkUser.create_root_folder
create_root_folder(user) ==
    /\ Len(folders) < MaxFolders
    /\ ~\E f \in FolderIds : folders[f].is_root_folder /\ folders[f].created_by = user
    /\ folders' = Append(folders, set_defaults(folders, Folder(0, user, 0, 0, "is_root_folder")))
    /\ UNCHANGED <<sponsorships, outside_folders>>

\* Organization.create_shared_folder
create_shared_folder(organization) ==
    /\ Len(folders) < MaxFolders
    /\ ~\E f \in FolderIds :
          folders[f].is_shared_folder /\ folders[f].organization = organization
    /\ folders' = Append(folders,
                     set_defaults(folders, Folder(0, 0, organization, 0, "is_shared_folder")))
    /\ UNCHANGED <<sponsorships, outside_folders>>

\* user.sponsored_root_folder, 0 for None
sponsored_root_folder(t, user) ==
    IF \E f \in 1..Len(t) : t[f].is_sponsored_root_folder /\ t[f].created_by = user
    THEN CHOOSE f \in 1..Len(t) : t[f].is_sponsored_root_folder /\ t[f].created_by = user
    ELSE 0

\* LinkUser.create_sponsored_root_folder
create_sponsored_root_folder(t, user) ==
    IF sponsored_root_folder(t, user) # 0 THEN t
    ELSE Append(t, set_defaults(t, Folder(0, user, 0, 0, "is_sponsored_root_folder")))

\* LinkUser.create_sponsored_folder
create_sponsored_folder(t, user, registrar) ==
    LET with_root == create_sponsored_root_folder(t, user)
    IN  Append(with_root,
               set_defaults(with_root,
                   Folder(sponsored_root_folder(with_root, user), user, 0, registrar, "")))

\* Sponsorship.folders
sponsorship_folders(t, user, registrar) ==
    {f \in 1..Len(t) : t[f].owned_by = user /\ t[f].sponsored_by = registrar}

\* self.folders.update(read_only=...), applied to the rows f, f+1, ...
RECURSIVE update_read_only(_, _, _, _)
update_read_only(t, S, read_only, f) ==
    IF f > Len(t) THEN t
    ELSE update_read_only(IF f \in S THEN [t EXCEPT ![f].read_only = read_only] ELSE t,
                          S, read_only, f + 1)

\* Sponsorship.save with the given status: the sponsored folder is created
\* when the sponsorship has none, and a changed status sets read_only
sponsorship_save(user, registrar, status) ==
    LET created == IF sponsorship_folders(folders, user, registrar) = {}
                   THEN create_sponsored_folder(folders, user, registrar)
                   ELSE folders
    IN  /\ Len(created) <= MaxFolders
        /\ sponsorships' = [sponsorships EXCEPT ![user, registrar] = status]
        /\ folders' = IF sponsorships[user, registrar] # status
                      THEN update_read_only(created,
                               sponsorship_folders(created, user, registrar),
                               status = "inactive", 1)
                      ELSE created
        /\ UNCHANGED outside_folders

\* ---------------------------------------------------------- specifications
\* concurrent callers, interleaved query by query; caller p creates jobs as
\* user p
Next ==
    \/ \E p \in Procs, h \in BOOLEAN, l \in BOOLEAN : save_compute(p, p, h, l)
    \/ \E p \in Procs : save_write(p)
    \/ \E p \in Procs, r \in BOOLEAN : get_next_job_cleanup(p, r)
    \/ \E p \in Procs : get_next_job_select(p)
    \/ \E p \in Procs : get_next_job_update(p)
    \/ \E l \in LinkIds : safe_delete(l)

Spec == Init /\ [][Next]_vars

\* a caller inside the while loop of get_next_job goes on running: its next
\* query is eventually sent and answered
Fairness ==
    \A p \in Procs : /\ WF_vars(get_next_job_select(p))
                     /\ WF_vars(get_next_job_update(p))

\* the concurrent callers again, every job created for a link
NextRetry ==
    \/ \E p \in Procs, h \in BOOLEAN : save_compute(p, p, h, TRUE)
    \/ \E p \in Procs : save_write(p)
    \/ \E p \in Procs, r \in BOOLEAN : get_next_job_cleanup(p, r)
    \/ \E p \in Procs : get_next_job_select(p)
    \/ \E p \in Procs : get_next_job_update(p)
    \/ \E l \in LinkIds : safe_delete(l)

SpecFair == Init /\ [][NextRetry]_vars /\ Fairness

\* job creations only, one after the other
NextSeq == \E u \in Users, h \in BOOLEAN, l \in BOOLEAN : save(u, h, l, MaxSeqJobs)

SpecSeq == Init /\ [][NextSeq]_vars

\* whole handlers, one after the other: creations of jobs with a link in
\* the lane of the jobs not submitted by a human, claims and deletions of
\* links
NextQueue ==
    \/ \E u \in Users : save(u, FALSE, TRUE, MaxQueueJobs)
    \/ \E r \in BOOLEAN : get_next_job(r)
    \/ \E l \in LinkIds : safe_delete(l)

SpecQueue == Init /\ [][NextQueue]_vars

\* whole handlers, one after the other, in both lanes, and calls of
\* queue_position
NextPosition ==
    \/ \E u \in Users, h \in BOOLEAN : save(u, h, TRUE, MaxJobs)
    \/ \E r \in BOOLEAN : get_next_job(r)
    \/ \E l \in LinkIds : safe_delete(l)
    \/ \E j \in JobIds : queue_position(j)

SpecPosition == Init /\ [][NextPosition]_vars

\* whole handlers, one after the other, with the capture results
NextMark ==
    \/ \E u \in Users, h \in BOOLEAN, l \in BOOLEAN : save(u, h, l, MaxMarkJobs)
    \/ \E r \in BOOLEAN : get_next_job(r)
    \/ \E j \in JobIds, s \in CompletionStatuses : mark_completed(j, s)
    \/ \E j \in JobIds, m \in Messages : mark_failed(j, m)
    \/ \E l \in LinkIds : safe_delete(l)
    \/ \E l \in LinkIds, role \in Roles, status \in CaptureStatuses :
          capture_save(l, role, status)

SpecMark == Init /\ [][NextMark]_vars

\* the handlers that touch a link's playback, one query after the other;
\* every link and job is created by user 1
NextPlay ==
    \/ \E h \in BOOLEAN : Len(links) < MaxPlayLinks /\ save(1, h, TRUE, MaxPlayJobs)
    \/ link_save(1)
    \/ \E r \in BOOLEAN : (\A j \in JobIds : returns[j] < MaxReturns) /\ get_next_job(r)
    \/ \E j \in JobIds, s \in CompletionStatuses : mark_completed(j, s)
    \/ \E j \in JobIds, m \in Messages : mark_failed(j, m)
    \/ \E l \in LinkIds : safe_delete(l)
    \/ \E l \in LinkIds, role \in Roles, status \in CaptureStatuses :
          capture_save(l, role, status)
    \/ \E l \in LinkIds : write_uploaded_file(l)
    \/ \E l \in LinkIds : mark_capturejob_superseded_load(l)
    \/ mark_capturejob_superseded_save
    \/ \E l \in LinkIds : can_play_back(l)
    \/ \E l \in LinkIds : cache_playback_status(l)

SpecPlay == Init /\ [][NextPlay]_vars

\* ------------------------------------------------------------- LinkUser
UserIds == 1..Len(users)

\* LinkUserManager.create_user: the user is saved with the registrar
\* given, LinkUser.save creating the root folder, and the organization
\* given is added to the user's organizations (0 is None: no membership)
create_user(registrar, organization) ==
    /\ Len(users) < MaxUsers
    /\ users' = Append(users,
                   [registrar |-> registrar,
                    organizations |-> IF organization = 0 THEN {} ELSE {organization},
                    is_staff |-> FALSE])
    /\ folders' = Append(folders,
                     set_defaults(folders,
                                  Folder(0, Len(users) + 1, 0, 0, "is_root_folder")))
    /\ UNCHANGED outside_users

\* user.registrar = registrar; user.save()
user_save(u, registrar) ==
    /\ u \in UserIds
    /\ users' = [users EXCEPT ![u].registrar = registrar]
    /\ UNCHANGED <<folders, outside_users>>

\* user.organizations.add(organization)
organizations_add(u, organization) ==
    /\ u \in UserIds
    /\ users' = [users EXCEPT ![u].organizations = @ \cup {organization}]
    /\ UNCHANGED <<folders, outside_users>>

\* user.organizations.remove(organization)
organizations_remove(u, organization) ==
    /\ u \in UserIds
    /\ users' = [users EXCEPT ![u].organizations = @ \ {organization}]
    /\ UNCHANGED <<folders, outside_users>>

\* user.is_staff = value; user.save()
is_staff_save(u, value) ==
    /\ u \in UserIds
    /\ users[u].is_staff # value
    /\ users' = [users EXCEPT ![u].is_staff = value]
    /\ UNCHANGED <<folders, outside_users>>

\* ------------------------------------------------------ links in folders
\* Link(created_by=..., bonus_link=...).save(initial_folder=...): the link
\* enters the Link table, filed in initial_folder, a personal folder, or
\* (0 is None) in the root folder of its creator
link_create(created_by, initial_folder, bonus_link) ==
    /\ Len(links) < MaxFiledLinks
    /\ root_folder(created_by) # 0
    /\ initial_folder \in {0} \cup {f \in 1..Len(folders) :
                                      folders[f].organization = 0 /\ folders[f].sponsored_by = 0}
    /\ links' = Append(links,
                   [link_row(created_by) EXCEPT
                       !.bonus_link = bonus_link,
                       !.folders = IF initial_folder = 0 THEN @ ELSE {initial_folder}])
    /\ UNCHANGED <<jobs, queue_vars, play_vars, outside_capture>>

\* ------------------------------------------------------ access to folders
\* organization.registrar_id
registrar_of(organization) == CHOOSE r \in Registrars : TRUE

\* LinkUser.get_orgs
get_orgs(u) ==
    IF users[u].organizations # {} THEN users[u].organizations
    ELSE IF users[u].registrar # 0
    THEN {o \in Organizations : registrar_of(o) = users[u].registrar}
    ELSE IF users[u].is_staff THEN Organizations
    ELSE {}

\* FolderQuerySet.user_access_filter: does folder f pass the filter
user_access_filter(u, f) ==
    \/ folders[f].owned_by = u
    \/ get_orgs(u) # {} /\ folders[f].organization \in get_orgs(u)

\* Folder.objects.accessible_to(user), as the set of primary keys
accessible_folders(u) == {f \in FolderIds : user_access_filter(u, f)}

\* Folder.accessible_to(user) on the instance of folder f; the method ends
\* without a return for a folder that is none of the four kinds
folder_accessible_to(f, u) ==
    IF users[u].is_staff THEN TRUE
    ELSE IF folders[f].owned_by = u THEN TRUE
    ELSE IF folders[f].sponsored_by # 0
    THEN folders[f].sponsored_by = users[u].registrar
    ELSE IF folders[f].organization # 0
    THEN IF users[u].registrar # 0
         THEN users[u].registrar = registrar_of(folders[f].organization)
         ELSE folders[f].organization \in users[u].organizations
    ELSE FALSE

\* both checks made for user u and folder f
accessible_to(u, f) ==
    /\ u \in UserIds /\ f \in FolderIds
    /\ access' = [user |-> u, folder |-> f,
                  instance |-> folder_accessible_to(f, u),
                  queryset |-> f \in accessible_folders(u)]
    /\ UNCHANGED <<capture_vars, folder_vars, guid_vars, user_vars, customer_vars, bonus_links>>
    /\ UNCHANGED <<position, remaining, deletable, credited>>

\* ------------------------------------------ Link.move_to_folder_for_user
\* the link leaves the folders accessible to the user and enters the given
\* folder (0 is None: it enters none and nothing is saved); it takes the
\* folder's organization, and a bonus link that enters a folder of an
\* organization or a sponsor is cleared and the user credited
move_to_folder_for_user(l, folder, user) ==
    /\ l \in 1..Len(links) /\ user \in UserIds /\ folder \in FolderIds \cup {0}
    /\ LET kept == links[l].folders \ accessible_folders(user)
           due == /\ folder # 0 /\ links[l].bonus_link
                  /\ (folders[folder].organization # 0 \/ folders[folder].sponsored_by # 0)
       IN  /\ links' = [links EXCEPT ![l] =
                           IF folder = 0 THEN [@ EXCEPT !.folders = kept]
                           ELSE [@ EXCEPT !.folders = kept \cup {folder},
                                          !.organization = folders[folder].organization,
                                          !.bonus_link = IF due THEN FALSE ELSE @]]
           /\ bonus_links' = IF due THEN [bonus_links EXCEPT ![user] = @ + 1]
                             ELSE bonus_links
    /\ UNCHANGED <<jobs, queue_vars, play_vars>>
    /\ UNCHANGED <<folder_vars, guid_vars, user_vars, customer_vars, call_vars>>

\* --------------------------------------------------- LinkUser.can_delete
\* Link.is_permanent without the comparison of the times
is_permanent_never(l) == FALSE

\* Link.is_permanent
is_permanent(l) == links[l].archive_timestamp < now /\ ~links[l].user_deleted

\* LinkUser.can_edit; user 0 is the anonymous user
can_edit(u, l) ==
    IF u = 0 THEN FALSE
    ELSE IF users[u].is_staff THEN TRUE
    ELSE \E f \in accessible_folders(u) : f \in links[l].folders

\* a call of LinkUser.can_delete
can_delete(u, l) ==
    /\ u \in UserIds \cup {0} /\ l \in LinkIds
    /\ deletable' = [called |-> TRUE, user |-> u, link |-> l,
                     returned |-> ~links[l].user_deleted /\ ~is_permanent(l) /\ can_edit(u, l)]
    /\ UNCHANGED <<capture_vars, folder_vars, guid_vars, user_vars, customer_vars, bonus_links>>
    /\ UNCHANGED <<position, remaining, credited, access>>

\* users created and changed as the help texts of registrar and
\* organizations ask, their folders, and the access checks
NextAccess ==
    \/ \E r \in Registrars \cup {0} : Len(users) < MaxAccessUsers /\ create_user(r, 0)
    \/ \E o \in Organizations : Len(users) < MaxAccessUsers /\ create_user(0, o)
    \/ \E u \in UserIds, v \in BOOLEAN : is_staff_save(u, v)
    \/ \E o \in Organizations : create_shared_folder(o)
    \/ \E u \in UserIds \cap FolderUsers, r \in Registrars, st \in {"active", "inactive"} :
          sponsorship_save(u, r, st)
    \/ \E u \in UserIds, f \in FolderIds : accessible_to(u, f)

SpecAccess == Init /\ [][NextAccess]_vars

NextUser ==
    \/ \E r \in Registrars \cup {0}, o \in Organizations \cup {0} : create_user(r, o)
    \/ \E u \in 1..MaxUsers, r \in Registrars \cup {0} : user_save(u, r)
    \/ \E u \in 1..MaxUsers, o \in Organizations : organizations_add(u, o)
    \/ \E u \in 1..MaxUsers, o \in Organizations : organizations_remove(u, o)

SpecUser == Init /\ [][NextUser]_vars

\* -------------------------------------------------------- CustomerModel
ACTIVE_SUBSCRIPTION_STATUSES == {"Current", "Cancellation Requested"}
PROBLEM_SUBSCRIPTION_STATUSES == {"Hold"}

\* the statuses the payments service reports
SubscriptionStatuses == {"Current", "Cancellation Requested", "Canceled", "Hold", "Pending"}

Times == 0..MaxTime

\* a subscription as get_subscription returns it; paid_through is <<>> for
\* None and <<t>> for the time t
Subscription(status, paid_through) == [status |-> status, paid_through |-> paid_through]

\* subscription_is_active, without the comparison with the present time
subscription_is_active_any_date(s) ==
    /\ s # Null
    /\ \/ s.status \in ACTIVE_SUBSCRIPTION_STATUSES
       \/ s.status = "Canceled" /\ s.paid_through # <<>>

\* subscription_is_active; s is Null (None) or a subscription
subscription_is_active(s) ==
    IF s = Null THEN FALSE
    ELSE \/ s.status \in ACTIVE_SUBSCRIPTION_STATUSES
         \/ IF s.status = "Canceled" /\ s.paid_through # <<>>
            THEN s.paid_through[1] >= now ELSE FALSE

\* subscription_has_problem
subscription_has_problem(s) ==
    IF s = Null THEN FALSE ELSE s.status \in PROBLEM_SUBSCRIPTION_STATUSES

\* the rest of subscription_status, after get_subscription returned s or
\* the except clause built s
status_of(s) ==
    IF subscription_is_active(s) THEN "active"
    ELSE IF subscription_has_problem(s) THEN "problem"
    ELSE None

\* the property subscription_status read; outcome is what the request to
\* the payments service did: "failed" (the request raised or was not ok),
\* "invalid" (a response that is not a valid transmission for this
\* customer), "none" (no subscription) or "subscription" (one with the
\* status and the paid_through given, which get_subscription stores)
subscription_status(outcome, status, paid_through) ==
    /\ IF customer.nonpaying
       THEN /\ subscription' = [called |-> TRUE, outcome |-> "nonpaying",
                                raised |-> FALSE, returned |-> status_of(Null)]
            /\ UNCHANGED customer
       ELSE IF outcome = "failed"
       THEN /\ subscription' =
                  [called |-> TRUE, outcome |-> outcome, raised |-> FALSE,
                   returned |-> status_of(Subscription(customer.cached_subscription_status,
                                                       customer.cached_paid_through))]
            /\ UNCHANGED customer
       ELSE IF outcome = "invalid"
       THEN /\ subscription' = [called |-> TRUE, outcome |-> outcome,
                                raised |-> TRUE, returned |-> None]
            /\ UNCHANGED customer
       ELSE IF outcome = "none"
       THEN /\ subscription' = [called |-> TRUE, outcome |-> outcome,
                                raised |-> FALSE, returned |-> status_of(Null)]
            /\ UNCHANGED customer
       ELSE /\ customer' = [customer EXCEPT !.cached_subscription_status = status,
                                            !.cached_paid_through = paid_through]
            /\ subscription' = [called |-> TRUE, outcome |-> outcome, raised |-> FALSE,
                                returned |-> status_of(Subscription(status, paid_through))]
    /\ UNCHANGED <<now, outside_customers>>

\* the nonpaying flag set or cleared by the staff
nonpaying_save(value) ==
    /\ customer.nonpaying # value
    /\ customer' = [customer EXCEPT !.nonpaying = value]
    /\ UNCHANGED <<now, subscription, outside_customers>>

\* timezone.now() advances
tick ==
    /\ now < MaxTime
    /\ now' = now + 1
    /\ UNCHANGED <<customer, subscription, outside_customers>>

\* the purchases the payments service reports: the quantity bought, and
\* whether the request acknowledging the purchase will succeed
Purchases ==
    UNION {[1..n -> [link_quantity : {1, 2}, acknowledged : BOOLEAN]] : n \in 0..MaxPurchases}

\* the for loop of credit_for_purchased_links from purchase i on: memory is
\* self.bonus_links of the instance, stored the value in the database,
\* count is credited_link_count; a failed acknowledgement leaves the atomic
\* block by an exception, which undoes the save and nothing else
RECURSIVE credit_loop(_, _, _, _, _)
credit_loop(purchases, i, memory, stored, count) ==
    IF i > Len(purchases) THEN [stored |-> stored, count |-> count]
    ELSE LET link_quantity == purchases[i].link_quantity
             saved == memory + link_quantity
         IN  IF purchases[i].acknowledged
             THEN credit_loop(purchases, i + 1, saved, saved, count + link_quantity)
             ELSE credit_loop(purchases, i + 1, saved, stored, count)

\* CustomerModel.credit_for_purchased_links on an instance just loaded
credit_for_purchased_links(purchases) ==
    LET done == credit_loop(purchases, 1, customer.bonus_links, customer.bonus_links, 0)
    IN  /\ done.stored <= MaxBonusLinks
        /\ customer' = [customer EXCEPT !.bonus_links = done.stored]
        /\ credited' = [called |-> TRUE, purchases |-> purchases,
                        before |-> customer.bonus_links, returned |-> done.count]
        /\ UNCHANGED <<now, subscription, capture_vars, folder_vars, guid_vars,
                       user_vars, bonus_links>>
        /\ UNCHANGED <<position, remaining, deletable, access>>

NextCredit == \E purchases \in Purchases : credit_for_purchased_links(purchases)

SpecCredit == Init /\ [][NextCredit]_vars

\* ------------------------------------------- links_remaining_in_period
\* the LinkUser whose CustomerModel fields the variable customer holds
CustomerUser == 1

\* relativedelta(years=1), in the unit of now
Year == 1

\* personal_links filtered by creator and by creation_timestamp__range, and
\* counted: one row for each link that is not deleted, not a bonus link, of
\* no organization, and each of its folders without a sponsor (one row for a
\* link in no folder)
personal_link_count(self, from, to) ==
    Cardinality({row \in (1..Len(links)) \X (0..Len(folders)) :
        LET link == links[row[1]]
        IN  /\ ~link.user_deleted
            /\ link.organization = 0
            /\ ~link.bonus_link
            /\ link.created_by = self
            /\ from <= link.creation_timestamp /\ link.creation_timestamp <= to
            /\ IF row[2] = 0 THEN link.folders = {}
               ELSE row[2] \in link.folders /\ folders[row[2]].sponsored_by = 0})

\* the count of the 'annually' branch: the count since a year before
\* cached_paid_through, when there is one, is assigned and then replaced by
\* the count of the last year
annual_link_count(self) ==
    LET first == IF customer.cached_paid_through # <<>>
                 THEN personal_link_count(self, customer.cached_paid_through[1] - Year, now)
                 ELSE 0
        second == personal_link_count(self, now - Year, now)
    IN  second

\* a call of links_remaining_in_period('annually', limit, unlimited) on the
\* customer; unlimited makes the result infinite
links_remaining_in_period(limit, unlimited) ==
    /\ CustomerUser \in UserIds
    /\ remaining' =
          IF unlimited
          THEN [called |-> TRUE, limit |-> limit, infinite |-> TRUE, returned |-> 0]
          ELSE LET left == limit - annual_link_count(CustomerUser)
               IN  [called |-> TRUE, limit |-> limit, infinite |-> FALSE,
                    returned |-> IF left > 0 THEN left ELSE 0]
    /\ UNCHANGED <<capture_vars, folder_vars, guid_vars, user_vars, customer_vars, bonus_links>>
    /\ UNCHANGED <<position, deletable, credited, access>>

NextCustomer ==
    \/ \E o \in {"failed", "invalid", "none"} : subscription_status(o, None, <<>>)
    \/ \E s \in SubscriptionStatuses, t \in {<<>>} \cup {<<d>> : d \in Times} :
          subscription_status("subscription", s, t)
    \/ \E v \in BOOLEAN : nonpaying_save(v)
    \/ tick

SpecCustomer == Init /\ [][NextCustomer]_vars

\* users and their links, deletions, the passing of time, and the calls of
\* can_delete
NextDelete ==
    \/ Len(users) < MaxAccessUsers /\ create_user(0, 0)
    \/ \E u \in UserIds, v \in BOOLEAN : is_staff_save(u, v)
    \/ \E u \in UserIds : link_create(u, 0, FALSE)
    \/ \E l \in LinkIds : safe_delete(l)
    \/ tick
    \/ \E u \in UserIds \cup {0}, l \in LinkIds : can_delete(u, l)

SpecDelete == Init /\ [][NextDelete]_vars

\* the customer and another user, their links, the customer's subscription,
\* the passing of time, and the calls of links_remaining_in_period
NextRemaining ==
    \/ Len(users) < MaxAccessUsers /\ create_user(0, 0)
    \/ \E u \in UserIds, b \in BOOLEAN : link_create(u, 0, b)
    \/ \E l \in LinkIds : safe_delete(l)
    \/ \E t \in {<<>>} \cup {<<d>> : d \in Times} : subscription_status("subscription", "Current", t)
    \/ tick
    \/ \E limit \in 0..MaxFiledLinks, unlimited \in BOOLEAN :
          links_remaining_in_period(limit, unlimited)

SpecRemaining == Init /\ [][NextRemaining]_vars

\* users, folders of users and organizations, links filed in personal
\* folders, bonus links among them, and the moves of folders and of links
\* by users with access to the folders the link is in
NextBonus ==
    \/ Len(users) < MaxAccessUsers /\ create_user(0, 0)
    \/ \E o \in Organizations : create_shared_folder(o)
    \/ \E u \in UserIds : folder_create(root_folder(u), u)
    \/ \E u \in UserIds, f \in FolderIds \cup {0}, b \in BOOLEAN : link_create(u, f, b)
    \/ \E f \in FolderIds, parent \in FolderIds \cup {0} : folder_move(f, parent)
    \/ \E l \in LinkIds, f \in FolderIds \cup {0}, u \in UserIds :
          /\ links[l].folders \subseteq accessible_folders(u)
          /\ move_to_folder_for_user(l, f, u)

SpecBonus == Init /\ [][NextBonus]_vars

\* the folder tree: creations, re-parentings and sponsorships
NextFolder ==
    \/ \E u \in FolderUsers : create_root_folder(u)
    \/ \E o \in Organizations : create_shared_folder(o)
    \/ \E u \in FolderUsers, r \in Registrars, s \in {"active", "inactive"} :
          sponsorship_save(u, r, s)
    \/ \E parent \in FolderIds, u \in FolderUsers : folder_create(parent, u)
    \/ \E f \in FolderIds, parent \in FolderIds \cup {0} : folder_move(f, parent)

SpecFolder == Init /\ [][NextFolder]_vars

\* get_canonical_guid applied to every string of the bounded set
InitCanonical ==
    /\ InitCapture /\ InitFolders /\ InitLinkGuids /\ InitUsers /\ InitCustomer
    /\ InitCalls
    /\ guid \in GuidInputs

NextCanonical == canonicalize

SpecCanonical == InitCanonical /\ [][NextCanonical]_vars

\* concurrent link creations, interleaved query by query, and deletions
NextGuid ==
    \/ \E p \in Procs, c \in GuidCandidates : guid_attempt(p, c)
    \/ \E p \in Procs : link_save_update(p)
    \/ \E p \in Procs : link_save_insert(p)
    \/ \E g \in Guids : link_safe_delete(g)

SpecGuid == Init /\ [][NextGuid]_vars

\* ------------------------------------------------------------ sanity
TypeOK ==
    /\ \A j \in JobIds :
         /\ jobs[j].status \in {"pending", "in_progress", "completed", "deleted", "failed", "invalid"}
         /\ jobs[j].link \in {0} \cup LinkIds
         /\ jobs[j].order > 0
    /\ Len(updates) = Len(jobs) /\ Len(returns) = Len(jobs)
    /\ \A p \in Procs : next_job[p] \in {0} \cup JobIds

\* ------------------------------------------------------------ claims
\* a step in which caller p's get_next_job selects (runs its first() query)
Selects(p) == pc[p] = "select" /\ pc'[p] # "select"

\* a step in which caller p's get_next_job returns
Returns(p) == pc[p] \in {"select", "update"} /\ pc'[p] = "idle"

link_deleted(t, j) == t[j].link # 0 /\ links[t[j].link].user_deleted

\* C1: no job is returned by more than one get_next_job(reserve=True) call,
\* and a returned job was moved from pending to in_progress by exactly one
\* conditional update that affected its row.
C1_ReturnedOnce ==
    \A j \in JobIds : updates[j] <= 1 /\ returns[j] <= updates[j]

\* two callers selected the same job; one has it, the other is about to
\* run its conditional update and find zero rows
C1_Witness ==
    \E j \in JobIds, p \in Procs :
        returns[j] = 1 /\ pc[p] = "update" /\ next_job[p] = j

\* C4: while a human job is pending the selection of get_next_job is a human
\* job; a non-human job is selected only when no human job is pending.
C4_HumanFirst ==
    [][\A p \in Procs : Selects(p) =>
          /\ (\E k \in Pending(jobs) : jobs[k].human)
                => (next_job'[p] # 0 /\ jobs[next_job'[p]].human)
          /\ (next_job'[p] # 0 /\ ~jobs[next_job'[p]].human)
                => ~(\E k \in Pending(jobs) : jobs[k].human)]_vars

\* a human job was returned although a pending non-human job has a lower order
C4_Witness ==
    \E p \in Procs :
        /\ pc[p] = "idle" /\ next_job[p] # 0 /\ jobs[next_job[p]].human
        /\ \E k \in Pending(jobs) :
              ~jobs[k].human /\ jobs[k].order < jobs[next_job[p]].order

\* C5: the selection of get_next_job is a pending job of the highest-priority
\* lane that has one, with the lowest order of that lane and the lowest
\* primary key among the jobs of that order; the call returns None only
\* when its selection found no pending job.
C5_LowestFirst ==
    [][\A p \in Procs :
          /\ Selects(p) =>
               IF Pending(jobs) = {} THEN next_job'[p] = 0
               ELSE /\ next_job'[p] \in Pending(jobs)
                    /\ \A k \in Pending(jobs) :
                         LET j == next_job'[p]
                         IN  /\ jobs[k].human => jobs[j].human
                             /\ jobs[k].human = jobs[j].human
                                  => jobs[j].order <= jobs[k].order
                             /\ (jobs[k].human = jobs[j].human
                                   /\ jobs[k].order = jobs[j].order) => j <= k
          /\ (Returns(p) /\ next_job'[p] = 0) => Pending(jobs) = {}]_vars

\* a job was selected that shares its order with a pending job of its lane
C5_Witness ==
    \E p \in Procs :
        /\ pc[p] = "update"
        /\ \E k \in Pending(jobs) \ {next_job[p]} :
              /\ jobs[k].human = jobs[next_job[p]].human
              /\ jobs[k].order = jobs[next_job[p]].order

\* C9 as stated: the job a get_next_job call returns never belongs to a
\* user-deleted link.
C9_NeverDeletedLink ==
    [][\A p \in Procs : (Returns(p) /\ next_job'[p] # 0)
          => ~link_deleted(jobs', next_job'[p])]_vars

\* C9 amended: right after the cleanup of a get_next_job call no pending job
\* belongs to a user-deleted link, and the job the call selects is pending
\* at the selection.
C9_CleanupBeforeSelect ==
    [][\A p \in Procs :
          /\ (pc[p] = "idle" /\ pc'[p] = "select")
                => \A j \in Pending(jobs') : ~link_deleted(jobs', j)
          /\ (Selects(p) /\ next_job'[p] # 0) => next_job'[p] \in Pending(jobs)]_vars

\* a cleanup has marked the pending job of a user-deleted link as deleted
C9_Witness ==
    \E j \in JobIds : jobs[j].status = "deleted" /\ link_deleted(jobs, j)

\* ---- the queue as get_next_job hands it out, within one lane
Ahead(a, b) ==
    jobs[a].order < jobs[b].order \/ (jobs[a].order = jobs[b].order /\ a < b)

First(S) == CHOOSE j \in S : \A k \in S \ {j} : Ahead(j, k)

Last(S) == CHOOSE j \in S : \A k \in S \ {j} : Ahead(k, j)

MaxOf(S) == CHOOSE m \in S : \A x \in S : x <= m

\* the pending jobs of lane h among the rows with primary key below n
PendingBefore(n, h) ==
    {j \in 1..(n - 1) : jobs[j].status = "pending" /\ jobs[j].human = h}

\* of a set Q of pending jobs, those after the most recent job of created_by
\* (all of Q when created_by has none), the creator's own excluded
AfterLatest(Q, created_by) ==
    LET own == {j \in Q : jobs[j].created_by = created_by}
    IN  IF own = {} THEN Q
        ELSE {j \in Q \ own : jobs[j].order >= MaxOf({jobs[k].order : k \in own})}

\* the jobs of A that are not the first job of their creator in A
Repeats(A) ==
    {j \in A : \E k \in A : k # j /\ jobs[k].created_by = jobs[j].created_by /\ Ahead(k, j)}

\* C2: in each lane, with the pending jobs in queue order, no user's second
\* pending job comes before the first pending job of another user.
C2_SecondAfterFirsts ==
    \A h \in BOOLEAN, u \in Users, v \in Users :
        LET U == {j \in PendingLane(h) : jobs[j].created_by = u}
            V == {j \in PendingLane(h) : jobs[j].created_by = v}
        IN  (u # v /\ Cardinality(U) >= 2 /\ V # {})
                => ~Ahead(First(U \ {First(U)}), First(V))

\* a job created after another user's two jobs sits between them
C2_Witness ==
    \E h \in BOOLEAN, u \in Users, v \in Users :
        LET U == {j \in PendingLane(h) : jobs[j].created_by = u}
            V == {j \in PendingLane(h) : jobs[j].created_by = v}
        IN  /\ u # v /\ Cardinality(U) >= 2 /\ V # {}
            /\ Ahead(First(U), First(V))
            /\ Ahead(First(V), First(U \ {First(U)}))
            /\ First(V) > First(U \ {First(U)})

\* C6 as stated: when, after the creator's most recent pending job, another
\* user has two pending jobs, the newest job's order is the midpoint of that
\* user's first and second job and is below the second.
C6_MidpointOfFirstAndSecond ==
    LET n == Len(jobs)
        A == AfterLatest(PendingBefore(n, jobs[n].human), jobs[n].created_by)
        second == First(Repeats(A))
        first == First({k \in A : jobs[k].created_by = jobs[second].created_by})
    IN  (n > 0 /\ Repeats(A) # {})
            => /\ 2 * jobs[n].order = jobs[first].order + jobs[second].order
               /\ jobs[n].order < jobs[second].order

\* C6 amended: the newest job's order is the midpoint of the first repeated
\* job (the earliest job in the queue that is a second job of its creator)
\* and the job right before it in the queue, strictly between the two.
C6_MidpointBeforeSecond ==
    LET n == Len(jobs)
        A == AfterLatest(PendingBefore(n, jobs[n].human), jobs[n].created_by)
        second == First(Repeats(A))
        before == Last({k \in A : Ahead(k, second)})
    IN  (n > 0 /\ Repeats(A) # {})
            => /\ 2 * jobs[n].order = jobs[before].order + jobs[second].order
               /\ jobs[before].order < jobs[n].order
               /\ jobs[n].order < jobs[second].order

\* the job right before the repeated job is not its creator's first job
C6_Witness ==
    LET n == Len(jobs)
        A == AfterLatest(PendingBefore(n, jobs[n].human), jobs[n].created_by)
        second == First(Repeats(A))
        before == Last({k \in A : Ahead(k, second)})
    IN  /\ n > 0 /\ Repeats(A) # {}
        /\ jobs[before].created_by # jobs[second].created_by
        /\ 2 * jobs[n].order = jobs[before].order + jobs[second].order

\* a step in which caller p's save computes the order of its new job
Computes(p) == pc[p] = "idle" /\ pc'[p] = "save"

LaneOrders(h) == {jobs[j].order : j \in {k \in JobIds : jobs[k].human = h}}

\* C7: when no other user has two pending jobs after the creator's most
\* recent pending job, the order save computes is above the order of every
\* pending job of the lane; when the lane has no pending job it is one more
\* than the highest order stored in the lane, 1 for an empty lane.
C7_AppendedLast ==
    [][\A p \in Procs : Computes(p) =>
          LET new == new_job'[p]
              Q == PendingLane(new.human)
          IN  /\ Repeats(AfterLatest(Q, new.created_by)) = {}
                    => \A j \in Q : new.order > jobs[j].order
              /\ Q = {} =>
                    IF LaneOrders(new.human) = {} THEN new.order = Scale
                    ELSE new.order = MaxOf(LaneOrders(new.human)) + Scale]_vars

\* a save computed its order from a lane whose jobs are all out of the queue
C7_Witness ==
    \E p \in Procs :
        /\ pc[p] = "save"
        /\ PendingLane(new_job[p].human) = {}
        /\ LaneOrders(new_job[p].human) # {}
        /\ new_job[p].order = MaxOf(LaneOrders(new_job[p].human)) + Scale
        /\ \E j \in JobIds : jobs[j].human = new_job[p].human /\ updates[j] = 1

captures_of(j) == IF jobs[j].link = 0 THEN 0 ELSE Len(links[jobs[j].link].captures)

\* C3 as stated: no job with zero captures, with or without a link, is in
\* status completed.
C3_NoCapturesNotCompleted ==
    \A j \in JobIds : jobs[j].status = "completed" => captures_of(j) > 0

\* C3 amended: no job whose link has zero captures is in status completed,
\* and mark_completed() on such a job leaves it failed.
C3_LinkWithoutCapturesFails ==
    /\ [](\A j \in JobIds :
            (jobs[j].status = "completed" /\ jobs[j].link # 0) => captures_of(j) > 0)
    /\ [][\A j \in JobIds :
            (mark_completed(j, "completed") /\ jobs[j].link # 0 /\ captures_of(j) = 0)
                => jobs'[j].status = "failed"]_vars

\* a claimed job whose link has no captures is failed with no message stored
C3_Witness ==
    \E j \in JobIds :
        /\ jobs[j].link # 0 /\ captures_of(j) = 0 /\ updates[j] = 1
        /\ jobs[j].status = "failed" /\ jobs[j].message = Null

\* C8 as stated: no job goes from pending to anything but in_progress, and
\* no job leaves completed, failed or deleted.
C8_StateMachine ==
    [][\A j \in JobIds :
          /\ jobs[j].status = "pending"
                => jobs'[j].status \in {"pending", "in_progress"}
          /\ jobs[j].status \in {"completed", "failed", "deleted"}
                => jobs'[j].status = jobs[j].status]_vars

\* C8 amended: a status changes only to in_progress from pending, or to
\* completed, failed or deleted (from any status); a job never returns to
\* pending and a job that is not pending never becomes in_progress.
C8_NeverRequeued ==
    [][\A j \in JobIds :
          jobs'[j].status # jobs[j].status =>
              \/ jobs[j].status = "pending" /\ jobs'[j].status = "in_progress"
              \/ jobs'[j].status \in {"completed", "failed", "deleted"}]_vars

\* a job left pending for deleted without ever being claimed
C8_Witness ==
    \E j \in JobIds :
        jobs[j].status = "deleted" /\ updates[j] = 0 /\ link_deleted(jobs, j)

\* C10: every failed job carries the JSON message of an error.
C10_FailedHasMessage ==
    \A j \in JobIds :
        jobs[j].status = "failed" => \E m \in Messages : jobs[j].message = json_dumps(m)

\* C11: once a job is completed, failed or deleted, no step sets it back to
\* pending or in_progress, and no get_next_job call returns it afterwards.
C11_TerminalNeverRetried ==
    [][\A j \in JobIds :
          jobs[j].status \in {"completed", "failed", "deleted"}
              => /\ jobs'[j].status \notin {"pending", "in_progress"}
                 /\ returns'[j] = returns[j]]_vars

\* a step that creates a job
Creates == Len(jobs') = Len(jobs) + 1

\* C22: a newly created job is ordered after every pending job of its own
\* creator and after the first pending job of every other user who has a
\* pending job in the same lane.
C22_AfterOwnAndFirsts ==
    [][Creates =>
          LET new == jobs'[Len(jobs')]
              Q == PendingLane(new.human)
          IN  /\ \A j \in Q : jobs[j].created_by = new.created_by
                                  => jobs[j].order < new.order
              /\ \A v \in Users \ {new.created_by} :
                    LET V == {j \in Q : jobs[j].created_by = v}
                    IN  V # {} => jobs[First(V)].order < new.order]_vars

\* C30: every job's order is strictly positive and no two pending jobs of
\* the same lane have the same order.
C30_PositiveDistinctOrders ==
    /\ \A j \in JobIds : jobs[j].order > 0
    /\ \A j \in Pending(jobs), k \in Pending(jobs) :
          (j # k /\ jobs[j].human = jobs[k].human) => jobs[j].order # jobs[k].order

\* the pending jobs get_next_job hands out before job j: those of the human
\* lane before a job of the other lane, and in j's own lane those of lower
\* order, or of equal order and lower primary key
HandedOutBefore(j) ==
    {k \in Pending(jobs) \ {j} :
        \/ jobs[k].human /\ ~jobs[j].human
        \/ jobs[k].human = jobs[j].human /\ Ahead(k, j)}

\* C23: queue_position of a pending job is the number of pending jobs that
\* get_next_job would hand out before it, and 0 for a job that is not
\* pending.
C23_PositionCountsJobsBefore ==
    [][position' # position =>
          position'.returned =
              IF jobs[position'.job].status = "pending"
              THEN Cardinality(HandedOutBefore(position'.job))
              ELSE 0]_vars

\* ---- the retry loop of get_next_job
\* C21: a reserving get_next_job whose conditional update affects no row
\* selects again; it returns a job only after its own update affected that
\* job's row, the only update that did, and None only when no job is pending;
\* and under fair scheduling every such call that has started selecting
\* eventually returns.
C21_RetriesThenReturns ==
    /\ [][\A p \in Procs :
            /\ (pc[p] = "update" /\ pc'[p] # "update") =>
                  IF jobs[next_job[p]].status # "pending"
                  THEN pc'[p] = "select" /\ returns' = returns /\ jobs' = jobs
                  ELSE /\ pc'[p] = "idle"
                       /\ jobs'[next_job[p]].status = "in_progress"
                       /\ updates'[next_job[p]] = 1
                       /\ returns'[next_job[p]] = 1
            /\ (pc[p] = "select" /\ reserve[p] /\ pc'[p] = "idle") =>
                  next_job'[p] = 0 /\ Pending(jobs) = {}]_vars
    /\ \A p \in Procs :
          (pc[p] \in {"select", "update"} /\ reserve[p]) ~> (pc[p] = "idle")

\* a reserving caller is back at the selection after an update that found
\* its job taken by another caller
C21_Witness ==
    \E p \in Procs :
        /\ pc[p] = "select" /\ reserve[p]
        /\ next_job[p] # 0
        /\ jobs[next_job[p]].status = "in_progress"
        /\ returns[next_job[p]] = 1

\* ---- playback
\* the link has a successful primary or screenshot capture and either no
\* CaptureJob or a CaptureJob that is completed or superseded
Eligible(l) ==
    /\ \E i \in 1..Len(links[l].captures) :
          /\ links[l].captures[i].role \in {"primary", "screenshot"}
          /\ links[l].captures[i].status = "success"
    /\ \A j \in JobIds :
          jobs[j].link = l => (jobs[j].status = "completed" \/ jobs[j].superseded)

\* a step that is a can_play_back call (the only step that records a call)
Plays == played' # played

\* C12 as stated: can_play_back returns true exactly when the link is
\* eligible.
C12_TrueIffEligible ==
    [][Plays => (played'.returned <=> Eligible(played'.link))]_vars

\* C12 amended: with a cached value can_play_back returns the cached value;
\* with none it returns false for a user-deleted link and otherwise true
\* exactly when the link is eligible.
C12_TrueIffEligibleAndKept ==
    [][Plays =>
          LET l == played'.link
          IN  IF links[l].cached_can_play_back # Null
              THEN played'.returned = links[l].cached_can_play_back.value
              ELSE IF links[l].user_deleted THEN ~played'.returned
              ELSE played'.returned <=> Eligible(l)]_vars

\* a call returned true for a link whose job is superseded and not completed
C12_Witness ==
    /\ played.link # 0 /\ played.returned
    /\ LET l == played.link
       IN  /\ links[l].cached_can_play_back = Null /\ ~links[l].user_deleted
           /\ Eligible(l)
           /\ \E j \in JobIds : jobs[j].link = l /\ jobs[j].superseded
                                  /\ jobs[j].status # "completed"

\* C13: a cached_can_play_back that is not null equals the link's
\* eligibility.
C13_CacheMirrorsEligibility ==
    \A l \in LinkIds :
        links[l].cached_can_play_back # Null
            => (links[l].cached_can_play_back.value <=> Eligible(l))

\* C14: a can_play_back call changes neither the link (cached_can_play_back
\* and the archive file included), nor its captures, nor any capture job;
\* when the metadata and the presence of the archive file disagree it
\* returns what the metadata say.
C14_PlayBackOnlyReads ==
    [][Plays =>
          LET l == played'.link
          IN  /\ links' = links /\ jobs' = jobs /\ job_instance' = job_instance
              /\ (/\ links[l].cached_can_play_back = Null
                  /\ ~links[l].user_deleted
                  /\ Eligible(l) # links[l].has_warc)
                    => /\ played'.returned = Eligible(l)
                       /\ played'.logged]_vars

\* after a call that logged a conflict the link still has no cached value
\* and the archive file still disagrees with what was returned
C14_Witness ==
    /\ played.link # 0 /\ played.logged
    /\ links[played.link].cached_can_play_back = Null
    /\ links[played.link].has_warc # played.returned
    /\ played.returned = Eligible(played.link)

\* ---- folders
\* the folders above folder d in table t
RECURSIVE Ancestors(_, _)
Ancestors(t, d) ==
    IF t[d].parent = 0 THEN {} ELSE {t[d].parent} \cup Ancestors(t, t[d].parent)

\* do rows a and b agree on read_only, organization and sponsored_by
SameFlags(a, b) ==
    /\ a.read_only = b.read_only
    /\ a.organization = b.organization
    /\ a.sponsored_by = b.sponsored_by

\* C15: after an existing folder f is saved with a changed parent p, f and
\* every folder below f have p's read_only, organization and sponsored_by;
\* a save of f with its parent unchanged changes these fields on no folder.
C15_ReparentPropagates ==
    [][\A f \in FolderIds :
          /\ \A p \in FolderIds :
                (folder_move(f, p) /\ p # folders[f].parent)
                    => \A d \in FolderIds :
                          (d = f \/ f \in Ancestors(folders', d))
                              => SameFlags(folders'[d], folders'[p])
          /\ folder_move(f, folders[f].parent)
                => \A d \in FolderIds : SameFlags(folders'[d], folders[d])]_vars

\* a personal folder with a subfolder was moved into an organization's
\* folder and the subfolder has the organization and no owner
C15_Witness ==
    \E d \in FolderIds, f \in FolderIds, p \in FolderIds :
        /\ folders[d].parent = f /\ folders[f].parent = p
        /\ d < f
        /\ folders[p].organization # 0
        /\ folders[d].created_by # 0 /\ folders[d].owned_by = 0
        /\ SameFlags(folders[d], folders[p])

\* C16: every folder whose parent has an organization or a sponsor has its
\* parent's read_only, organization, sponsored_by and owned_by.
C16_ChildMatchesParent ==
    \A f \in FolderIds :
        LET p == folders[f].parent
        IN  (p # 0 /\ (folders[p].organization # 0 \/ folders[p].sponsored_by # 0))
                => /\ SameFlags(folders[f], folders[p])
                   /\ folders[f].owned_by = folders[p].owned_by

\* ---- GUIDs
\* the string upper-cased, its characters that are not letters or digits
\* dropped
Cleaned(s) ==
    SelectSeq([i \in 1..Len(s) |-> IF s[i] = "a" THEN "A" ELSE s[i]],
              LAMBDA c : c # "-")

\* the characters of c with a hyphen before each group of four counted from
\* the end: at distance e from the end the hyphens are at e = 4, 9, 14, ...
Grouped(c) ==
    LET n == Len(c)
        len == IF n = 0 THEN 0 ELSE n + (n - 1) \div 4
    IN  [k \in 1..len |->
            LET e == len - k
            IN  IF e % 5 = 4 THEN "-" ELSE c[n - (e - e \div 5)]]

UpperHyphenated(r) ==
    \A i \in 1..Len(r) :
        /\ r[i] # "a"
        /\ r[i] = "-" <=> (Len(r) - i) % 5 = 4

\* the legacy GUIDs: nine or more characters, no hyphen
Legacy(s) == Len(s) >= 9 /\ \A i \in 1..Len(s) : s[i] # "-"

C18_FreshGuid ==
    [][\A p \in Procs :
          /\ (creating[p].pc = "update" /\ creating'[p].pc # "update")
                => ~link_by_guid[creating[p].guid].exists
          /\ \A g \in Guids :
                (link_by_guid[g].exists /\ creating'[p] # creating[p])
                    => link_by_guid'[g] = link_by_guid[g]]_vars

\* C19: no user has both a registrar and a membership in an organization.
C19_RegistrarOrOrganizations ==
    \A u \in UserIds : ~(users[u].registrar # 0 /\ users[u].organizations # {})

\* ---- purchased links
\* the quantities of the purchases whose acknowledgement succeeded, summed
RECURSIVE Acknowledged(_)
Acknowledged(purchases) ==
    IF purchases = <<>> THEN 0
    ELSE (IF Head(purchases).acknowledged THEN Head(purchases).link_quantity ELSE 0)
            + Acknowledged(Tail(purchases))

\* C28: credit_for_purchased_links raises the stored bonus_links by the
\* quantities of exactly the purchases whose acknowledgement succeeded, and
\* returns the total rise of the stored bonus_links.
C28_CreditedIffAcknowledged ==
    [][credited' # credited =>
          /\ customer'.bonus_links = customer.bonus_links + Acknowledged(credited'.purchases)
          /\ credited'.returned = customer'.bonus_links - customer.bonus_links]_vars

\* ---- links remaining in the period
\* C24: for the annual period a call that is not unlimited returns
\* max(limit - count, 0), where count is the number of the customer's
\* personal links created between one year before cached_paid_through and
\* now when the customer has a cached_paid_through, and only without one the
\* number created in the last year.
C24_AnnualWindowFromPaidThrough ==
    [][(remaining' # remaining /\ ~remaining'.infinite) =>
          LET count == IF customer.cached_paid_through # <<>>
                       THEN personal_link_count(CustomerUser,
                                customer.cached_paid_through[1] - Year, now)
                       ELSE personal_link_count(CustomerUser, now - Year, now)
              left == remaining'.limit - count
          IN  remaining'.returned = IF left > 0 THEN left ELSE 0]_vars

\* ---- bonus links
\* C25: a re-parenting of a folder into a folder of an organization or a
\* sponsor, and a move of a link into one, leave no bonus link in such a
\* folder, and every user's bonus_links grows by exactly the number of that
\* user's own links whose bonus_link the step cleared, so that nobody else's
\* balance changes.
C25_CreatorsCredited ==
    [][/\ \A l \in 1..Len(links') :
            (links'[l].bonus_link /\ ~links'[l].user_deleted) =>
                \A f \in links'[l].folders :
                    folders'[f].organization = 0 /\ folders'[f].sponsored_by = 0
       /\ \A u \in 1..MaxUsers :
            bonus_links'[u] = bonus_links[u] +
                Cardinality({l \in 1..Len(links) :
                    /\ links[l].created_by = u
                    /\ links[l].bonus_link /\ ~links'[l].bonus_link})]_vars

\* ---- deleting links
\* C27: can_delete is true only if the link is not user-deleted, its
\* archive_timestamp has not passed and the user can edit it (staff, or a
\* folder of the link passes the user's access filter); for no user, staff
\* included, is it true once archive_timestamp has passed, or for a link
\* already deleted.
C27_DeleteOnlyBeforeArchive ==
    [][deletable' # deletable =>
          LET u == deletable'.user
              l == deletable'.link
          IN  /\ deletable'.returned =>
                    /\ ~links[l].user_deleted
                    /\ links[l].archive_timestamp >= now
                    /\ u # 0
                    /\ \/ users[u].is_staff
                       \/ \E f \in links[l].folders : user_access_filter(u, f)
              /\ links[l].archive_timestamp < now => ~deletable'.returned
              /\ links[l].user_deleted => ~deletable'.returned]_vars

\* a staff user who owns the link's folder was refused a link that is not
\* deleted and whose archive_timestamp has passed
C27_Witness ==
    /\ deletable.called /\ ~deletable.returned /\ deletable.user # 0
    /\ users[deletable.user].is_staff
    /\ \E f \in links[deletable.link].folders : folders[f].owned_by = deletable.user
    /\ ~links[deletable.link].user_deleted
    /\ links[deletable.link].archive_timestamp < now

\* ---- access to folders
\* C29: for every user and folder the instance check Folder.accessible_to
\* and the query filter Folder.objects.accessible_to give the same answer.
C29_InstanceAgreesWithQuery ==
    access.user # 0 => (access.instance <=> access.queryset)

\* ---- subscription status
\* a step in which subscription_status was read and the call to the
\* payments service failed
FailedCall == subscription' # subscription /\ subscription'.outcome = "failed"

\* C20: when the call to the payments service fails, subscription_status
\* raises nothing and is active for a cached status of Current or
\* Cancellation Requested, or of Canceled with a cached paid_through that has
\* not passed, problem for Hold, and no status otherwise.
C20_FailedCallUsesCache ==
    [][FailedCall =>
          /\ ~subscription'.raised
          /\ customer' = customer
          /\ subscription'.returned =
                IF \/ customer.cached_subscription_status \in {"Current", "Cancellation Requested"}
                   \/ /\ customer.cached_subscription_status = "Canceled"
                      /\ \E t \in Times : t >= now /\ customer.cached_paid_through = <<t>>
                THEN "active"
                ELSE IF customer.cached_subscription_status = "Hold" THEN "problem"
                ELSE None]_vars

\* the service had reported Canceled, paid through time 0; after that time
\* the call failed and subscription_status was no status
C20_Witness ==
    /\ subscription = [called |-> TRUE, outcome |-> "failed", raised |-> FALSE,
                       returned |-> None]
    /\ customer.cached_subscription_status = "Canceled"
    /\ customer.cached_paid_through = <<0>>
    /\ now > 0

\* every order is a whole number of halves of the unit used, so no midpoint
\* is rounded
OrdersExact ==
    /\ \A j \in JobIds : jobs[j].order % 2 = 0
    /\ \A p \in Procs : new_job[p].order % 2 = 0

====
